---- MODULE Spec2Model ----
(***************************************************************************)
(* The stream browser view of the terminal client (StreamsView in          *)
(* src/views/stream_browser.rs): the navigation state machine, the two     *)
(* loaders behind load/refresh, the lazy scroll clamp of draw and the      *)
(* single-slot error overlay.                                              *)
(*                                                                         *)
(* Strings are sequences of one-character strings.  Option<T> is a         *)
(* sequence of length at most one (None == <<>>, Some(x) == <<x>>).        *)
(* A panic (index out of bounds, unwrap of None, checked arithmetic        *)
(* overflow) ends the program: `panicked` becomes TRUE and nothing         *)
(* follows.  Arithmetic overflow panics in a build with overflow checks    *)
(* and wraps in a build without them; both outcomes are behaviours.        *)
(***************************************************************************)
EXTENDS Integers, Sequences, FiniteSets, TLC

VARIABLES
    selected_tab,            \* StreamsView.selected_tab : usize
    selected,                \* StreamsView.selected : usize
    last_created,            \* Model.last_created : Vec<String>
    recently_changed,        \* Model.recently_changed : Vec<String>
    selected_stream,         \* Model.selected_stream : Option<String>
    selected_stream_events,  \* Model.selected_stream_events : Vec<ResolvedEvent>
    stage,                   \* StreamsView.stage : Stage
    scroll,                  \* StreamsView.scroll : u16
    buffer,                  \* StreamsView.buffer : String
    last_error,              \* StreamsView.last_error : Option<eventstore::Error>
    panicked,                \* the process has panicked
    ret,                     \* what the last call that returns a value returned
    loader,                  \* the read that call issued to the client
    typed                    \* the text entered since '/' opened the search box shown

vars == <<selected_tab, selected, last_created, recently_changed, selected_stream,
          selected_stream_events, stage, scroll, buffer, last_error, panicked,
          ret, loader, typed>>

view == <<selected_tab, selected, stage, scroll, buffer, last_error>>
model == <<last_created, recently_changed, selected_stream, selected_stream_events>>

-----------------------------------------------------------------------------
(* Bounds of the model *)

\* longest answer of one catalog read of the client (the code asks for 20)
MaxRead == 2
\* longest answer of one stream read of the client (the code asks for 500)
MaxEvents == 2
\* longest search buffer typed
MaxBuf == 1
\* largest scroll offset reached by key presses in the navigation specification
MaxScroll == 2
\* largest row index reached by the wrapped `len - 1` comparison
MaxSelected == 2
\* longest search buffer typed in the search specification
MaxTyped == 2
\* longest answer of the read of the global log in the catalog specification
MaxLog == 3

(* Program constants *)

\* u16::MAX, the largest value of StreamsView.scroll
U16Max == 65535
\* the fixed margin of the scroll clamp in draw
Margin == 2

-----------------------------------------------------------------------------
(* Values *)

None == <<>>
Some(x) == <<x>>
IsSome(o) == o # <<>>
Unwrap(o) == o[1]

\* eventstore::Error: the distinguished "source not found" and any other failure
ResourceNotFound == "ResourceNotFound"
Transport == "Transport"
Errors == {ResourceNotFound, Transport}

\* characters the keyboard can deliver as KeyCode::Char
AsciiChars == {"q", "Q", "/", " "}
\* U+00E9 stands for a character outside ASCII
Chars == AsciiChars \cup {"U+00E9"}
\* char::is_alphanumeric in the place of char::is_ascii
is_alphanumeric(c) == c \in {"q", "Q"}

\* a search box that drops the quit key
is_ascii_but_quit(c) == c \in AsciiChars \ {"q", "Q"}

\* char::is_ascii
is_ascii(c) == c \in AsciiChars

\* KeyCode
Keys == Chars \cup {"Esc", "Backspace", "Enter", "Left", "Right", "Up", "Down"}

IsQuitKey(key) == key \in {"q", "Q"}

-----------------------------------------------------------------------------
(* String helpers *)

IsSpace(c) == c = " "

RECURSIVE TrimStart(_)
TrimStart(s) ==
    IF s # <<>> /\ IsSpace(Head(s)) THEN TrimStart(Tail(s)) ELSE s

RECURSIVE TrimEnd(_)
TrimEnd(s) ==
    IF s # <<>> /\ IsSpace(s[Len(s)]) THEN TrimEnd(SubSeq(s, 1, Len(s) - 1)) ELSE s

\* str::trim
Trim(s) == TrimEnd(TrimStart(s))

\* String::pop
Pop(s) == IF s = <<>> THEN s ELSE SubSeq(s, 1, Len(s) - 1)

\* the reserved name of the global log
AllStream == <<"$", "a", "l", "l">>

\* an invalid UTF-8 byte inside a payload
BadByte == "0xFF"
IsUtf8(p) == \A i \in 1..Len(p) : p[i] # BadByte

\* str::rsplit_once('@').unwrap_or_default(), second component
RSplitOnceAt(p) ==
    LET ats == {i \in 1..Len(p) : p[i] = "@"} IN
    IF ats = {} THEN <<>>
    ELSE LET last == CHOOSE i \in ats : \A j \in ats : j <= i
         IN SubSeq(p, last + 1, Len(p))

Contains(list, x) == \E i \in 1..Len(list) : list[i] = x

-----------------------------------------------------------------------------
(* The read client.  A read is opened (read_stream / read_all), which may   *)
(* fail, and then polled with next(): it yields its items and then ends      *)
(* with Ok(None) ("Eof") or with an error.  The "source not found"           *)
(* condition is reported by next().                                          *)

\* what a backward read of at most `max` items finds of a log, most recent
\* first: nothing while the log is empty, its last `max` items once it is filled
Tails(log, max) ==
    {<<>>, SubSeq(log, 1, IF Len(log) < max THEN Len(log) ELSE max)}

\* payloads of the $streams projection, most recent first: "0@a", "1@ $all",
\* "2@x@b"; and a payload that is not UTF-8
CreatedLogs ==
    { << <<"0", "@", "a">>, <<"1", "@", " ", "$", "a", "l", "l">>,
         <<"2", "@", "x", "@", "b">> >>,
      << <<"0", "@", BadByte>> >> }

\* stream ids of the records of the global log, most recent first
AllLogs == { << <<"a">>, <<"a">>, <<"b">>, <<"a">> >> }

\* ResolvedEvent, reduced to what the view reads of it: the revision, whether
\* `event` is present (a link that resolved), the is_json flag, whether the
\* payload parses as JSON and the number of lines of its pretty-printed form
Event(rev, resolved, is_json, parses, lines) ==
    [revision |-> rev, resolved |-> resolved, is_json |-> is_json,
     parses |-> parses, lines |-> lines]

EventLogs ==
    { <<Event(2, TRUE, FALSE, FALSE, 0), Event(1, TRUE, TRUE, TRUE, 10),
        Event(0, TRUE, TRUE, TRUE, 3)>>,
      <<Event(0, TRUE, TRUE, FALSE, 0)>>,
      <<Event(0, FALSE, FALSE, FALSE, 0)>> }

Ends == {"Eof", ResourceNotFound, Transport}

Read(open, items, end) == [open |-> open, items |-> items, end |-> end]

ReadsOf(itemSeqs) ==
    {Read("Ok", items, end) : items \in itemSeqs, end \in Ends}
        \cup {Read(Transport, <<>>, "Eof")}

StreamsReads == ReadsOf(UNION {Tails(log, MaxRead) : log \in CreatedLogs})
AllReads == ReadsOf(UNION {Tails(log, MaxRead) : log \in AllLogs})
EventReads == ReadsOf(UNION {Tails(log, MaxEvents) : log \in EventLogs})

\* ReadStream::next, the i-th poll of an opened read
stream_next(read, i) ==
    IF i <= Len(read.items) THEN [tag |-> "Some", e |-> "-"]
    ELSE IF read.end = "Eof" THEN [tag |-> "None", e |-> "-"]
    ELSE [tag |-> "Err", e |-> read.end]

\* read_stream_next: ResourceNotFound becomes a normal end of data
read_stream_next(read, i) ==
    LET r == stream_next(read, i) IN
    IF r.tag = "Err" /\ r.e = ResourceNotFound THEN [tag |-> "None", e |-> "-"]
    ELSE r

\* the stream name of a $streams payload
stream_name_of(payload) == RSplitOnceAt(payload)

Outcome(kind, e, created, changed, events) ==
    [kind |-> kind, e |-> e, last_created |-> created, recently_changed |-> changed,
     events |-> events]

\* the failures the client reported while a read was opened and polled to its end
Reported(read) ==
    IF read.open # "Ok" THEN {read.open}
    ELSE IF read.end # "Eof" THEN {read.end}
    ELSE {}

\* first loop of load_streams: Ok with the names; Err, which drops them; or
\* Panic on a payload that is not UTF-8
RECURSIVE collect_created(_, _, _)
collect_created(read, i, acc) ==
    LET r == read_stream_next(read, i) IN
    CASE r.tag = "Err" -> Outcome("Err", r.e, <<>>, <<>>, <<>>)
      [] r.tag = "None" -> Outcome("Ok", "-", acc, <<>>, <<>>)
      [] OTHER ->
            IF ~IsUtf8(read.items[i]) THEN Outcome("Panic", "-", <<>>, <<>>, <<>>)
            ELSE collect_created(read, i + 1, Append(acc, stream_name_of(read.items[i])))

\* the second loop without its membership check
RECURSIVE collect_changed_all(_, _, _)
collect_changed_all(read, i, acc) ==
    LET r == read_stream_next(read, i) IN
    CASE r.tag = "Err" -> Outcome("Err", r.e, <<>>, <<>>, <<>>)
      [] r.tag = "None" -> Outcome("Ok", "-", <<>>, acc, <<>>)
      [] OTHER -> collect_changed_all(read, i + 1, Append(acc, read.items[i]))

\* second loop of load_streams: the stream ids, each once
RECURSIVE collect_changed(_, _, _)
collect_changed(read, i, acc) ==
    LET r == read_stream_next(read, i) IN
    CASE r.tag = "Err" -> Outcome("Err", r.e, <<>>, <<>>, <<>>)
      [] r.tag = "None" -> Outcome("Ok", "-", <<>>, acc, <<>>)
      [] OTHER ->
            IF Contains(acc, read.items[i]) THEN collect_changed(read, i + 1, acc)
            ELSE collect_changed(read, i + 1, Append(acc, read.items[i]))

\* the async block of load_streams: the new Model, or the error it returns
load_streams_block(r1, r2) ==
    IF r1.open # "Ok" THEN Outcome("Err", r1.open, <<>>, <<>>, <<>>)
    ELSE IF r2.open # "Ok" THEN Outcome("Err", r2.open, <<>>, <<>>, <<>>)
    ELSE LET c1 == collect_created(r1, 1, <<>>) IN
         IF c1.kind # "Ok" THEN Outcome(c1.kind, c1.e, <<>>, <<>>, <<>>)
         ELSE LET c2 == collect_changed(r2, 1, <<>>) IN
              IF c2.kind # "Ok" THEN Outcome(c2.kind, c2.e, <<>>, <<>>, <<>>)
              ELSE Outcome("Ok", "-", c1.last_created, c2.recently_changed, <<>>)

\* the loop of refresh: every item, or the first error of next(), which drops
\* the items read so far
RECURSIVE collect_events(_, _, _)
collect_events(read, i, acc) ==
    LET r == stream_next(read, i) IN
    CASE r.tag = "Err" -> Outcome("Err", r.e, <<>>, <<>>, <<>>)
      [] r.tag = "None" -> Outcome("Ok", "-", <<>>, <<>>, acc)
      [] OTHER -> collect_events(read, i + 1, Append(acc, read.items[i]))

\* the async block of refresh
refresh_block(read) ==
    IF read.open # "Ok" THEN Outcome("Err", read.open, <<>>, <<>>, <<>>)
    ELSE collect_events(read, 1, <<>>)

\* the failures the client reported to load_streams: the second read is opened
\* after the first and polled only when the first loop ended normally
load_streams_reported(r1, r2) ==
    IF r1.open # "Ok" THEN {r1.open}
    ELSE IF r2.open # "Ok" THEN {r2.open}
    ELSE LET c1 == collect_created(r1, 1, <<>>) IN
         IF c1.kind = "Panic" THEN {}
         ELSE IF c1.kind = "Err" THEN Reported(r1)
         ELSE Reported(r1) \cup Reported(r2)

\* what the async block of load_streams can evaluate to, and that of refresh
CatalogOutcomes == {load_streams_block(r1, r2) : r1 \in StreamsReads, r2 \in AllReads}
EventOutcomes == {refresh_block(r) : r \in EventReads}

-----------------------------------------------------------------------------
(* The state after StreamsView::default() *)

Init ==
    /\ selected_tab = 0
    /\ selected = 0
    /\ last_created = <<>>
    /\ recently_changed = <<>>
    /\ selected_stream = None
    /\ selected_stream_events = <<>>
    /\ stage = "Main"
    /\ scroll = 0
    /\ buffer = <<>>
    /\ last_error = None
    /\ panicked = FALSE
    /\ ret = "Init"
    /\ loader = "none"
    /\ typed = <<>>

\* a panic: the process ends, whatever the handler had written so far
Panic ==
    /\ panicked' = TRUE
    /\ ret' = "Panic"

-----------------------------------------------------------------------------
(* load, unload and refresh *)

\* a catalog failure shown in the error overlay instead of returned
load_streams_overlay(o) ==
    /\ loader' = "catalog"
    /\ CASE o.kind = "Ok" ->
              /\ last_created' = o.last_created
              /\ recently_changed' = o.recently_changed
              /\ selected_stream' = None
              /\ selected_stream_events' = <<>>
              /\ ret' = "Ok"
              /\ UNCHANGED <<panicked, last_error>>
         [] o.kind = "Err" ->
              /\ ret' = "Ok"
              /\ last_error' = Some(o.e)
              /\ UNCHANGED <<model, panicked>>
         [] OTHER ->
              /\ Panic
              /\ UNCHANGED <<model, last_error>>
    /\ UNCHANGED <<selected_tab, selected, stage, scroll, buffer, typed>>

\* a failed catalog load that leaves the fresh Model::default() of the block
\* in place of the catalog loaded before
load_streams_resets(o) ==
    /\ loader' = "catalog"
    /\ CASE o.kind = "Ok" ->
              /\ last_created' = o.last_created
              /\ recently_changed' = o.recently_changed
              /\ selected_stream' = None
              /\ selected_stream_events' = <<>>
              /\ ret' = "Ok"
              /\ UNCHANGED panicked
         [] o.kind = "Err" ->
              /\ ret' = "Err"
              /\ last_created' = <<>>
              /\ recently_changed' = <<>>
              /\ selected_stream' = None
              /\ selected_stream_events' = <<>>
              /\ UNCHANGED panicked
         [] OTHER ->
              /\ Panic
              /\ UNCHANGED model
    /\ UNCHANGED <<view, typed>>

\* load_streams: the model is replaced only when the whole block succeeded
load_streams(o) ==
    /\ loader' = "catalog"
    /\ CASE o.kind = "Ok" ->
              /\ last_created' = o.last_created
              /\ recently_changed' = o.recently_changed
              /\ selected_stream' = None
              /\ selected_stream_events' = <<>>
              /\ ret' = "Ok"
              /\ UNCHANGED panicked
         [] o.kind = "Err" ->
              /\ ret' = "Err"
              /\ UNCHANGED <<model, panicked>>
         [] OTHER ->
              /\ Panic
              /\ UNCHANGED model
    /\ UNCHANGED <<view, typed>>

\* View::load, the catalog loader answering one of `answers`
load_from(answers) ==
    /\ ~panicked
    /\ \E o \in answers : load_streams(o)

load == load_from(CatalogOutcomes)

\* View::unload
unload ==
    /\ ~panicked
    /\ selected' = 0
    /\ selected_tab' = 0
    /\ scroll' = 0
    /\ stage' = "Main"
    /\ last_created' = <<>>
    /\ recently_changed' = <<>>
    /\ selected_stream' = None
    /\ selected_stream_events' = <<>>
    /\ last_error' = None
    /\ ret' = "Unit"
    /\ loader' = "none"
    /\ UNCHANGED <<buffer, panicked, typed>>

\* the read refresh opens for the selected stream
stream_loader(stream_name) ==
    IF Trim(stream_name) = AllStream THEN "read_all" ELSE "read_stream"

\* a failed read that keeps the events loaded before
refresh_result_keeps(o) ==
    IF o.kind = "Err"
    THEN /\ last_error' = Some(o.e)
         /\ UNCHANGED selected_stream_events
    ELSE /\ selected_stream_events' = o.events
         /\ UNCHANGED last_error

\* a successful read that closes the error overlay
refresh_result_clears(o) ==
    IF o.kind = "Err"
    THEN /\ last_error' = Some(o.e)
         /\ selected_stream_events' = <<>>
    ELSE /\ selected_stream_events' = o.events
         /\ last_error' = None

\* the match on the result of the stream read
refresh_result(o) ==
    IF o.kind = "Err"
    THEN /\ last_error' = Some(o.e)
         /\ selected_stream_events' = <<>>
    ELSE /\ selected_stream_events' = o.events
         /\ UNCHANGED last_error

\* a refresh that reloads the events under the preview
refresh_preview_reloads ==
    /\ stage = "StreamPreview"
    /\ IsSome(selected_stream)
    /\ \E o \in EventOutcomes :
          /\ loader' = "read_stream"
          /\ refresh_result(o)
          /\ ret' = "Ok"
          /\ UNCHANGED <<selected_tab, selected, stage, scroll, buffer, last_created,
                         recently_changed, selected_stream, panicked, typed>>

\* refresh while the preview is shown
refresh_preview ==
    /\ stage = "StreamPreview"
    /\ ret' = "Ok"
    /\ loader' = "none"
    /\ UNCHANGED <<view, model, panicked, typed>>

\* refresh of the events of the selected stream
refresh_stream(answers) ==
    /\ stage # "StreamPreview"
    /\ IsSome(selected_stream)
    /\ \E o \in answers :
          /\ loader' = stream_loader(Unwrap(selected_stream))
          /\ refresh_result(o)
          /\ ret' = "Ok"
          /\ UNCHANGED <<selected_tab, selected, stage, scroll, buffer, last_created,
                         recently_changed, selected_stream, panicked, typed>>

\* refresh of the catalog
refresh_catalog(answers) ==
    /\ stage # "StreamPreview"
    /\ ~IsSome(selected_stream)
    /\ \E o \in answers : load_streams(o)

\* View::refresh, the loaders answering one of `catalog` / `events`
refresh_from(catalog, events) ==
    /\ ~panicked
    /\ \/ refresh_preview
       \/ refresh_stream(events)
       \/ refresh_catalog(catalog)

refresh == refresh_from(CatalogOutcomes, EventOutcomes)

-----------------------------------------------------------------------------
(* on_key_pressed *)

\* the error guard placed after the dispatch of the search box
ErrorPendingOutsideSearch == IsSome(last_error) /\ stage # "Search"

ErrorPending == IsSome(last_error)

\* the rows of the tab that is shown in Main
active_rows == IF selected_tab = 0 THEN last_created ELSE recently_changed

\* `selected < len - 1` in usize, where the subtraction did not overflow
below_last(sel, len) == sel < len - 1

\* the handler returns r to the host; it issued no read
Returns(r) ==
    /\ ret' = r
    /\ loader' = "none"

\* the error guard at the top of the handler
key_error(key) ==
    /\ ErrorPending
    /\ IF IsQuitKey(key)
       THEN /\ last_error' = None
            /\ stage' = "Main"
            /\ selected_stream' = None
       ELSE UNCHANGED <<last_error, stage, selected_stream>>
    /\ Returns("Noop")
    /\ UNCHANGED <<selected_tab, selected, scroll, buffer, last_created,
                   recently_changed, selected_stream_events, panicked, typed>>

\* Stage::Search
key_search(key) ==
    /\ ~ErrorPending
    /\ stage = "Search"
    /\ CASE key = "Esc" ->
              /\ stage' = "Main"
              /\ typed' = <<>>
              /\ Returns("Noop")
              /\ UNCHANGED <<selected, buffer, selected_stream>>
         [] key = "Backspace" ->
              /\ buffer' = Pop(buffer)
              /\ typed' = Pop(typed)
              /\ Returns("Noop")
              /\ UNCHANGED <<selected, stage, selected_stream>>
         [] key = "Enter" ->
              /\ selected' = 0
              /\ stage' = "Stream"
              /\ selected_stream' = Some(buffer)
              /\ buffer' = <<>>
              /\ typed' = <<>>
              /\ Returns("Refresh")
         [] key \in Chars /\ is_ascii(key) ->
              /\ buffer' = Append(buffer, key)
              /\ typed' = Append(typed, key)
              /\ Returns("Noop")
              /\ UNCHANGED <<selected, stage, selected_stream>>
         [] OTHER ->
              /\ Returns("Noop")
              /\ UNCHANGED <<selected, stage, buffer, selected_stream, typed>>
    /\ UNCHANGED <<selected_tab, scroll, last_error, last_created, recently_changed,
                   selected_stream_events, panicked>>

\* a quit key that closes the preview pane but keeps the preview stage
key_quit_keeps_preview(key) ==
    /\ ~ErrorPending
    /\ stage # "Search"
    /\ IsQuitKey(key)
    /\ CASE stage = "Main" ->
              /\ Returns("Exit")
              /\ UNCHANGED <<stage, selected, scroll>>
         [] stage = "Stream" ->
              /\ stage' = "Main"
              /\ selected' = 0
              /\ Returns("Noop")
              /\ UNCHANGED scroll
         [] OTHER ->
              /\ scroll' = 0
              /\ Returns("Noop")
              /\ UNCHANGED <<stage, selected>>
    /\ UNCHANGED <<selected_tab, buffer, last_error, model, panicked, typed>>

\* KeyCode::Char('q' | 'Q')
key_quit(key) ==
    /\ ~ErrorPending
    /\ stage # "Search"
    /\ IsQuitKey(key)
    /\ CASE stage = "Main" ->
              /\ Returns("Exit")
              /\ UNCHANGED <<stage, selected, scroll>>
         [] stage = "Stream" ->
              /\ stage' = "Main"
              /\ selected' = 0
              /\ Returns("Noop")
              /\ UNCHANGED scroll
         [] OTHER ->
              /\ scroll' = 0
              /\ stage' = "Stream"
              /\ Returns("Noop")
              /\ UNCHANGED selected
    /\ UNCHANGED <<selected_tab, buffer, last_error, model, panicked, typed>>

\* KeyCode::Char('/')
key_slash(key) ==
    /\ ~ErrorPending
    /\ stage # "Search"
    /\ key = "/"
    /\ IF stage = "Main"
       THEN /\ stage' = "Search"
            /\ typed' = <<>>
       ELSE UNCHANGED <<stage, typed>>
    /\ Returns("Noop")
    /\ UNCHANGED <<selected_tab, selected, scroll, buffer, last_error, model, panicked>>

\* KeyCode::Left | KeyCode::Right
key_left_right(key) ==
    /\ ~ErrorPending
    /\ stage # "Search"
    /\ key \in {"Left", "Right"}
    /\ selected_tab' = (selected_tab + 1) % 2
    /\ selected' = 0
    /\ Returns("Noop")
    /\ UNCHANGED <<stage, scroll, buffer, last_error, model, panicked, typed>>

\* KeyCode::Up
key_up(key) ==
    /\ ~ErrorPending
    /\ stage # "Search"
    /\ key = "Up"
    /\ IF stage = "StreamPreview"
       THEN /\ scroll' = IF scroll > 0 THEN scroll - 1 ELSE scroll
            /\ UNCHANGED selected
       ELSE /\ selected' = IF selected > 0 THEN selected - 1 ELSE selected
            /\ UNCHANGED scroll
    /\ Returns("Noop")
    /\ UNCHANGED <<selected_tab, stage, buffer, last_error, model, panicked, typed>>

\* `if self.selected < len - 1 { self.selected += 1 }`: with len = 0 the
\* subtraction overflows, which panics in a build with overflow checks and
\* otherwise wraps to usize::MAX, above every index the view holds
down_row(len) ==
    \/ /\ len > 0
       /\ selected' = IF below_last(selected, len) THEN selected + 1 ELSE selected
       /\ Returns("Noop")
       /\ UNCHANGED panicked
    \/ /\ len = 0
       /\ Panic
       /\ loader' = "none"
       /\ UNCHANGED selected
    \/ /\ len = 0
       /\ selected' = selected + 1
       /\ Returns("Noop")
       /\ UNCHANGED panicked

\* `self.scroll += 1` in u16: at u16::MAX the addition overflows, which panics
\* in a build with overflow checks and otherwise wraps to 0
down_scroll ==
    \/ /\ scroll < U16Max
       /\ scroll' = scroll + 1
       /\ Returns("Noop")
       /\ UNCHANGED panicked
    \/ /\ scroll = U16Max
       /\ Panic
       /\ loader' = "none"
       /\ UNCHANGED scroll
    \/ /\ scroll = U16Max
       /\ scroll' = (scroll + 1) % (U16Max + 1)
       /\ Returns("Noop")
       /\ UNCHANGED panicked

\* KeyCode::Down
key_down(key) ==
    /\ ~ErrorPending
    /\ stage # "Search"
    /\ key = "Down"
    /\ CASE stage = "Main" ->
              /\ down_row(Len(active_rows))
              /\ UNCHANGED scroll
         [] stage = "Stream" ->
              /\ down_row(Len(selected_stream_events))
              /\ UNCHANGED scroll
         [] OTHER ->
              /\ down_scroll
              /\ UNCHANGED selected
    /\ UNCHANGED <<selected_tab, stage, buffer, last_error, model, typed>>

\* KeyCode::Enter
key_enter(key) ==
    /\ ~ErrorPending
    /\ stage # "Search"
    /\ key = "Enter"
    /\ CASE stage = "Main" ->
              /\ stage' = "Stream"
              /\ IF selected + 1 <= Len(active_rows)
                 THEN /\ selected_stream' = Some(active_rows[selected + 1])
                      /\ selected' = 0
                      /\ Returns("Refresh")
                      /\ UNCHANGED panicked
                 ELSE /\ Panic
                      /\ loader' = "none"
                      /\ UNCHANGED <<selected_stream, selected>>
         [] stage = "Stream" ->
              /\ stage' = "StreamPreview"
              /\ Returns("Refresh")
              /\ UNCHANGED <<selected_stream, selected, panicked>>
         [] OTHER ->
              /\ Returns("Noop")
              /\ UNCHANGED <<stage, selected_stream, selected, panicked>>
    /\ UNCHANGED <<selected_tab, scroll, buffer, last_error, last_created,
                   recently_changed, selected_stream_events, typed>>

\* `_ => {}`
key_other(key) ==
    /\ ~ErrorPending
    /\ stage # "Search"
    /\ ~IsQuitKey(key)
    /\ key \notin {"/", "Left", "Right", "Up", "Down", "Enter"}
    /\ Returns("Noop")
    /\ UNCHANGED <<view, model, panicked, typed>>

\* View::on_key_pressed
on_key_pressed(key) ==
    /\ ~panicked
    /\ \/ key_error(key)
       \/ key_search(key)
       \/ key_quit(key)
       \/ key_slash(key)
       \/ key_left_right(key)
       \/ key_up(key)
       \/ key_down(key)
       \/ key_enter(key)
       \/ key_other(key)

-----------------------------------------------------------------------------
(* draw *)

\* heights of the payload pane (rects[1].height) the terminal can have
Heights == {5, 11}

\* Text::height of the payload pane: the pretty-printed JSON, or "<BINARY>"
text_height(event) == IF event.is_json THEN event.lines ELSE 1

\* the scroll clamp of the preview
clamp(s, height, content) ==
    IF height >= Margin + content THEN 0
    ELSE IF s > (Margin + content) - height THEN (Margin + content) - height
    ELSE s

\* Stage::Stream of draw unwraps `event` of every row
draw_stream_panics == \E i \in 1..Len(selected_stream_events) :
                          ~selected_stream_events[i].resolved

\* Stage::StreamPreview of draw indexes the selected event, unwraps it and
\* parses its payload when it is flagged JSON
draw_preview_panics ==
    \/ selected + 1 > Len(selected_stream_events)
    \/ LET event == selected_stream_events[selected + 1]
       IN ~event.resolved \/ (event.is_json /\ ~event.parses)

\* a render that moves the highlight back to the first row
draw_reselects(height) ==
    /\ ~panicked
    /\ CASE stage \in {"Main", "Search"} ->
              UNCHANGED <<scroll, panicked, ret>>
         [] stage = "Stream" ->
              IF draw_stream_panics
              THEN Panic /\ UNCHANGED scroll
              ELSE UNCHANGED <<scroll, panicked, ret>>
         [] OTHER ->
              IF draw_preview_panics
              THEN Panic /\ UNCHANGED scroll
              ELSE /\ scroll' = clamp(scroll, height,
                                      text_height(selected_stream_events[selected + 1]))
                   /\ UNCHANGED <<panicked, ret>>
    /\ selected' = 0
    /\ UNCHANGED <<selected_tab, stage, buffer, last_error, model, typed, loader>>

\* View::draw with a payload pane of `height` lines
draw(height) ==
    /\ ~panicked
    /\ CASE stage \in {"Main", "Search"} ->
              UNCHANGED <<scroll, panicked, ret>>
         [] stage = "Stream" ->
              IF draw_stream_panics
              THEN Panic /\ UNCHANGED scroll
              ELSE UNCHANGED <<scroll, panicked, ret>>
         [] OTHER ->
              IF draw_preview_panics
              THEN Panic /\ UNCHANGED scroll
              ELSE /\ scroll' = clamp(scroll, height,
                                      text_height(selected_stream_events[selected + 1]))
                   /\ UNCHANGED <<panicked, ret>>
    /\ UNCHANGED <<selected_tab, selected, stage, buffer, last_error, model, typed,
                   loader>>

-----------------------------------------------------------------------------
(* The navigation specification: every entry point, any key, any answer of  *)
(* the client.  The counters that grow without limit are capped.            *)

KeyWithinBounds(key) ==
    /\ (stage = "Search" /\ ~ErrorPending /\ key \in AsciiChars) => Len(buffer) < MaxBuf
    /\ (stage = "StreamPreview" /\ key = "Down") => scroll < MaxScroll
    /\ (stage \in {"Main", "Stream"} /\ key = "Down") => selected < MaxSelected

\* the characters typed into the search box while navigating
NavTyped == {"q", "/"}

\* the keys pressed while navigating: every key but the space bar, and in the
\* search box no other character than those of NavTyped
NavKey(key) ==
    /\ key # " "
    /\ (stage = "Search" /\ ~ErrorPending /\ key \in AsciiChars) => key \in NavTyped

KeyPressed ==
    \E key \in Keys : NavKey(key) /\ KeyWithinBounds(key) /\ on_key_pressed(key)

Draw == \E height \in Heights : draw(height)

Next ==
    \/ KeyPressed
    \/ load
    \/ unload
    \/ refresh
    \/ Draw

Spec == Init /\ [][Next]_vars

-----------------------------------------------------------------------------
(* The search specification: every key, every character, in front of a      *)
(* store that holds one catalog and whose stream read either delivers the   *)
(* events of the stream or reports that the stream does not exist.          *)

SearchCatalogOutcomes ==
    {o \in CatalogOutcomes : o.kind = "Ok" /\ o.last_created # <<>> /\ o.recently_changed # <<>>}

SearchEventOutcomes ==
    {o \in EventOutcomes :
        \/ o.kind = "Err" /\ o.e = ResourceNotFound
        \/ o.kind = "Ok" /\ Len(o.events) > 1}

SearchKeyWithinBounds(key) ==
    /\ (stage = "Search" /\ ~ErrorPending /\ key \in AsciiChars) => Len(buffer) < MaxTyped
    /\ (stage = "StreamPreview" /\ key = "Down") => scroll < MaxScroll
    /\ (stage \in {"Main", "Stream"} /\ key = "Down") => selected < MaxSelected

SearchKeyPressed == \E key \in Keys : SearchKeyWithinBounds(key) /\ on_key_pressed(key)

SearchLoad == load_from(SearchCatalogOutcomes)

SearchRefresh == refresh_from(SearchCatalogOutcomes, SearchEventOutcomes)

SearchNext ==
    \/ SearchKeyPressed
    \/ SearchLoad
    \/ SearchRefresh
    \/ unload

SpecSearch == Init /\ [][SearchNext]_vars

-----------------------------------------------------------------------------
(* The scroll specification: the way into the preview of one event whose    *)
(* pretty-printed payload has ten lines, and then Up, Down and draw with    *)
(* the scroll offset in its full 16-bit range.                              *)

ScrollEventOutcomes ==
    {refresh_block(Read("Ok", <<Event(0, TRUE, TRUE, TRUE, 10)>>, "Eof"))}

ScrollKeys == {"Enter", "Up", "Down"}

ScrollKeyPressed ==
    \E key \in ScrollKeys :
        /\ key = "Down" => stage = "StreamPreview"
        /\ on_key_pressed(key)

ScrollLoad == load_from(SearchCatalogOutcomes)

ScrollRefresh == refresh_from(SearchCatalogOutcomes, ScrollEventOutcomes)

ScrollNext ==
    \/ ScrollKeyPressed
    \/ ScrollLoad
    \/ ScrollRefresh
    \/ Draw

SpecScroll == Init /\ [][ScrollNext]_vars

-----------------------------------------------------------------------------
(* The catalog specification: the read of the global log answers any        *)
(* sequence of records of three streams, up to MaxLog records long.         *)

StreamIds == {<<"a">>, <<"b">>, <<"c">>}

\* every sequence of at most n records of the streams `ids`
Logs(ids, n) == UNION {[1..k -> ids] : k \in 0..n}

CatalogAllReads == ReadsOf(Logs(StreamIds, MaxLog))

\* the $streams read answers its payloads and then ends, or fails
CatalogStreamsReads ==
    {r \in StreamsReads :
        /\ r.open = "Ok"
        /\ r.items # <<>>
        /\ \A i \in 1..Len(r.items) : IsUtf8(r.items[i])
        /\ r.end \in {"Eof", Transport}}

\* the answers of the two reads, with what the async block makes of them
CatalogAnswers ==
    {[r1 |-> r1, r2 |-> r2, o |-> load_streams_block(r1, r2)] :
        r1 \in CatalogStreamsReads, r2 \in CatalogAllReads}

CatalogSpecOutcomes == {a.o : a \in CatalogAnswers}

CatalogKeys == {"Left", "Right", "Up", "Down", "Enter", "q"}

CatalogKeyPressed ==
    \E key \in CatalogKeys : KeyWithinBounds(key) /\ on_key_pressed(key)

CatalogLoad == load_from(CatalogSpecOutcomes)

CatalogRefresh == refresh_from(CatalogSpecOutcomes, SearchEventOutcomes)

CatalogNext ==
    \/ CatalogKeyPressed
    \/ CatalogLoad
    \/ CatalogRefresh

SpecCatalog == Init /\ [][CatalogNext]_vars

-----------------------------------------------------------------------------
(* Properties *)

NoError == ~IsSome(last_error)

\* the list `selected` indexes in the stage shown
ActiveLen ==
    IF stage \in {"Main", "Search"}
    THEN (IF selected_tab = 0 THEN Len(last_created) ELSE Len(recently_changed))
    ELSE Len(selected_stream_events)

SelectedInRange == IF ActiveLen = 0 THEN selected = 0 ELSE selected < ActiveLen

\* the last call that returned a value was a key press
AfterKey == ret \in {"Noop", "Refresh", "Exit"}

\* what the async block of refresh evaluates to when the client reports e
EventFailures(e) == {refresh_block(r) : r \in {x \in EventReads : e \in Reported(x)}}
EventFailuresTransport == EventFailures(Transport)
EventFailuresNotFound == EventFailures(ResourceNotFound)

\* what the async block of load_streams evaluates to when the client reports
\* a failure other than "source not found", and when it reports only that one
CatalogFailures ==
    {load_streams_block(p[1], p[2]) :
        p \in {q \in StreamsReads \X AllReads : Transport \in load_streams_reported(q[1], q[2])}}
CatalogNotFound ==
    {load_streams_block(p[1], p[2]) :
        p \in {q \in StreamsReads \X AllReads :
                    load_streams_reported(q[1], q[2]) = {ResourceNotFound}}}

\* a step of refresh in which the stream read reports e
StreamRefreshFails(e) ==
    /\ IsSome(selected_stream)
    /\ loader' \in {"read_stream", "read_all"}
    /\ refresh_from({}, IF e = Transport THEN EventFailuresTransport
                        ELSE EventFailuresNotFound)

\* a step of load or refresh in which a catalog read reports a failure other
\* than "source not found", and one in which it reports only "source not found"
CatalogLoadFails ==
    /\ loader' = "catalog"
    /\ load_from(CatalogFailures)
CatalogLoadNotFound ==
    /\ loader' = "catalog"
    /\ load_from(CatalogNotFound)

\* C1: after each key press `selected` is an index of the active list, or 0
\* when that list is empty
C1_SelectedInRange == (AfterKey /\ ~panicked) => SelectedInRange

\* C2: Down in Main or Stream never fails, and moves `selected` down by one
\* exactly when selected + 1 is below the length of the active list, so that
\* on an empty list `selected` stays 0
C2_DownStep ==
    (NoError /\ stage \in {"Main", "Stream"} /\ on_key_pressed("Down")) =>
        /\ ~panicked'
        /\ selected' = IF selected + 1 < ActiveLen THEN selected + 1 ELSE selected

C2_DownNeverUnderflows == [][C2_DownStep]_vars

\* C3: while an error is pending, a key other than q/Q changes nothing of the
\* view and of the model and returns Noop
C3_Step ==
    IsSome(last_error) =>
        \A key \in Keys \ {"q", "Q"} :
            on_key_pressed(key) =>
                /\ UNCHANGED <<view, model, panicked>>
                /\ ret' = "Noop"

C3_ErrorSwallowsKeys == [][C3_Step]_vars

\* a key was swallowed in the search box while an error was pending
C3_Witness == IsSome(last_error) /\ ret = "Noop" /\ stage = "Search" /\ buffer # <<>>

\* C4: a stream refresh that fails with a transport error sets the error,
\* keeps the selected stream, empties the events and returns Ok; the dismiss
\* key then clears the error and the selected stream, shows Main and returns Noop
C4_Step ==
    /\ (stage # "StreamPreview" /\ StreamRefreshFails(Transport)) =>
          /\ last_error' = Some(Transport)
          /\ selected_stream' = selected_stream
          /\ selected_stream_events' = <<>>
          /\ ret' = "Ok"
    /\ IsSome(last_error) =>
          \A key \in {"q", "Q"} :
              on_key_pressed(key) =>
                  /\ last_error' = None
                  /\ selected_stream' = None
                  /\ stage' = "Main"
                  /\ ret' = "Noop"

C4_FailedRefreshThenDismiss == [][C4_Step]_vars

\* a refresh of a stream has just failed with a transport error
C4_Witness ==
    /\ last_error = Some(Transport)
    /\ ret = "Ok"
    /\ loader = "read_stream"
    /\ IsSome(selected_stream)

\* C5 as claimed: no failure of a loader is returned to the host, and the
\* error is set exactly when a loader reports a failure that is not benign
C5_OriginalStep ==
    /\ CatalogLoadFails => (ret' # "Err" /\ IsSome(last_error'))
    /\ (stage # "StreamPreview" /\ StreamRefreshFails(Transport)) =>
          (ret' # "Err" /\ IsSome(last_error'))
    /\ (NoError /\ IsSome(last_error')) =>
          (CatalogLoadFails \/ StreamRefreshFails(Transport))

C5_Step ==
    /\ CatalogLoadFails =>
          (ret' = "Err" /\ UNCHANGED <<last_error, model, view>>)
    /\ CatalogLoadNotFound =>
          (ret' = "Ok" /\ UNCHANGED last_error)
    /\ \A e \in Errors :
          (stage # "StreamPreview" /\ StreamRefreshFails(e)) =>
              /\ ret' = "Ok"
              /\ last_error' = Some(e)
              /\ selected_stream_events' = <<>>
    /\ (last_error' # last_error /\ IsSome(last_error')) =>
          \E e \in Errors : stage # "StreamPreview" /\ StreamRefreshFails(e)

C6_Step ==
    /\ CatalogLoadNotFound => (ret' = "Ok" /\ UNCHANGED last_error)
    /\ (stage # "StreamPreview" /\ StreamRefreshFails(ResourceNotFound)) =>
          (ret' = "Ok" /\ UNCHANGED last_error)

C6_NotFoundIsBenign == [][C6_Step]_vars

\* the dismiss key pressed
Dismissed == \E key \in {"q", "Q"} : on_key_pressed(key)

\* C7 as claimed: a pending error is cleared by the dismiss key only
C7_Original == [][(IsSome(last_error) /\ ~IsSome(last_error')) => Dismissed]_vars

\* C7 amended: a pending error is cleared by the dismiss key and by unload
\* only; no other key, no refresh, no load and no draw clears it
C7_ErrorStaysUntilDismissOrUnload ==
    [][(IsSome(last_error) /\ ~IsSome(last_error')) => (Dismissed \/ unload)]_vars

\* a refresh succeeded while the error was pending, and the error is still set
C7_Witness ==
    /\ IsSome(last_error)
    /\ selected_stream_events # <<>>
    /\ ret = "Ok"
    /\ loader = "read_stream"

IsSuffix(t, b) == Len(t) <= Len(b) /\ SubSeq(b, Len(b) - Len(t) + 1, Len(b)) = t

\* C8 as claimed: Enter in the search box selects exactly the text typed since
\* '/' opened it
C8_OriginalStep ==
    (NoError /\ stage = "Search" /\ on_key_pressed("Enter")) =>
        /\ selected_stream' = Some(typed)
        /\ stage' = "Stream"
        /\ selected' = 0
        /\ buffer' = <<>>
        /\ ret' = "Refresh"

C8_Original == [][C8_OriginalStep]_vars

\* C8 amended: '/' in Main opens the search box with the buffer as Esc left
\* it; an ASCII character is appended to the buffer as typed; Backspace removes
\* the last character of the buffer and does nothing to an empty one; Enter
\* moves the whole buffer, the text kept followed by the text typed, unchanged
\* into selected_stream, empties the buffer, sets selected to 0, shows Stream
\* and returns Refresh
C8_Step ==
    NoError =>
        /\ (stage = "Main" /\ on_key_pressed("/")) =>
              (stage' = "Search" /\ buffer' = buffer /\ ret' = "Noop")
        /\ stage = "Search" =>
              /\ \A c \in AsciiChars :
                    on_key_pressed(c) =>
                        (buffer' = Append(buffer, c) /\ stage' = "Search" /\ ret' = "Noop")
              /\ on_key_pressed("Backspace") =>
                    /\ buffer' = IF buffer = <<>> THEN <<>>
                                 ELSE SubSeq(buffer, 1, Len(buffer) - 1)
                    /\ stage' = "Search"
                    /\ ret' = "Noop"
              /\ on_key_pressed("Enter") =>
                    /\ selected_stream' = Some(buffer)
                    /\ IsSuffix(typed, buffer)
                    /\ stage' = "Stream"
                    /\ selected' = 0
                    /\ buffer' = <<>>
                    /\ ret' = "Refresh"

C8_SearchRoundTrip == [][C8_Step]_vars

\* a name typed with a space and a capital letter has been entered as it is
C8_Witness ==
    /\ ret = "Refresh"
    /\ stage = "Stream"
    /\ selected_stream = Some(<<" ", "Q">>)

\* C9: in the preview Down adds one to scroll without failing or wrapping, Up
\* takes one off when scroll is above 0, and after a draw scroll is 0 when the
\* pane is at least as high as the content plus the margin and at most
\* content + margin - height otherwise
C9_Step ==
    (NoError /\ stage = "StreamPreview") =>
        /\ on_key_pressed("Down") => (~panicked' /\ scroll' = scroll + 1)
        /\ on_key_pressed("Up") => scroll' = (IF scroll > 0 THEN scroll - 1 ELSE 0)
        /\ \A h \in Heights :
              (draw(h) /\ ~panicked') =>
                  LET content == text_height(selected_stream_events[selected + 1]) IN
                  IF h >= content + Margin THEN scroll' = 0
                  ELSE scroll' <= content + Margin - h

C9_ScrollBounded == [][C9_Step]_vars

\* C10: a refresh while the preview is shown issues no read, changes nothing
\* of the model, of the view and of the error, and returns Ok
C10_Step ==
    (stage = "StreamPreview" /\ refresh) =>
        /\ UNCHANGED <<model, view, panicked>>
        /\ loader' = "none"
        /\ ret' = "Ok"

C10_RefreshSkippedInPreview == [][C10_Step]_vars

\* a refresh has just returned under the preview of a loaded event
C10_Witness ==
    /\ stage = "StreamPreview"
    /\ ret = "Ok"
    /\ loader = "none"
    /\ selected_stream_events # <<>>
    /\ IsSome(selected_stream)

\* C11: a catalog load in which one of the two reads reports a failure other
\* than "source not found" returns Err to its caller and leaves last_created,
\* recently_changed, selected_stream and selected_stream_events as they were
C11_Step ==
    CatalogLoadFails =>
        /\ ret' = "Err"
        /\ last_created' = last_created
        /\ recently_changed' = recently_changed
        /\ selected_stream' = selected_stream
        /\ selected_stream_events' = selected_stream_events

C11_CatalogLoadAllOrNothing == [][C11_Step]_vars

\* a catalog load has just failed over a catalog with both lists filled
C11_Witness ==
    /\ ret = "Err"
    /\ loader = "catalog"
    /\ last_created # <<>>
    /\ recently_changed # <<>>

NoDuplicates(list) == \A i, j \in 1..Len(list) : list[i] = list[j] => i = j

\* the position of the first occurrence of x in items
FirstIndex(items, x) ==
    CHOOSE i \in 1..Len(items) : items[i] = x /\ \A j \in 1..(i - 1) : items[j] # x

\* list holds the elements of items, each once, in the order in which they
\* first occur in items
FirstOccurrences(list, items) ==
    /\ NoDuplicates(list)
    /\ {list[i] : i \in 1..Len(list)} = {items[i] : i \in 1..Len(items)}
    /\ \A i, j \in 1..Len(list) :
          i < j => FirstIndex(items, list[i]) < FirstIndex(items, list[j])

\* the answers of the two reads with which the async block succeeds
CatalogAnswersOk == {a \in CatalogAnswers : a.o.kind = "Ok"}

\* the same answers, by the list the block makes of the global log
CatalogAnswersWith ==
    [list \in {a.o.recently_changed : a \in CatalogAnswersOk} |->
        {a \in CatalogAnswersOk : a.o.recently_changed = list}]

\* C12: recently_changed never holds a stream id twice, and a catalog load
\* that succeeds leaves in it the ids of the records read from the global log,
\* each once, in the order of their first occurrence in the backward read
C12_Step ==
    (loader' = "catalog" /\ ret' = "Ok" /\ recently_changed' \in DOMAIN CatalogAnswersWith) =>
        \A a \in CatalogAnswersWith[recently_changed'] :
            load_streams(a.o) => FirstOccurrences(recently_changed', a.r2.items)

C12_RecentlyChangedDeduplicated ==
    [](NoDuplicates(recently_changed)) /\ [][C12_Step]_vars

\* a catalog load has read b, a, b, c and kept b, a, c
C12_Witness ==
    /\ ret = "Ok"
    /\ loader = "catalog"
    /\ recently_changed = << <<"b">>, <<"a">>, <<"c">> >>

\* the signal the key handler is to return for key in the state shown
SignalFor(key) ==
    IF NoError /\ stage = "Main" /\ IsQuitKey(key) THEN "Exit"
    ELSE IF NoError /\ key = "Enter" /\ stage \in {"Main", "Search", "Stream"} THEN "Refresh"
    ELSE "Noop"

\* C13: the key handler returns one signal for every key: Exit exactly for
\* q/Q in Main with no error pending, Refresh exactly for Enter in Main, Search
\* or Stream with no error pending, and Noop in every other case
C13_Step == \A key \in Keys : on_key_pressed(key) => ret' = SignalFor(key)

C13_OneSignalPerKey == [][C13_Step]_vars

\* C14: while an error is pending a refresh invokes no loader, so that the
\* events stay empty and the error stays the one that was captured
C14_Step ==
    (IsSome(last_error) /\ refresh) =>
        /\ loader' = "none"
        /\ selected_stream_events' = <<>>
        /\ last_error' = last_error

C14_NoLoadWhileErrorPending == [][C14_Step]_vars

\* C15: with no error pending, Left and Right toggle selected_tab and set
\* selected to 0 in Main and in Search, and leave both as they are in Stream
\* and in the preview; selected_tab is always 0 or 1
C15_Step ==
    \A key \in {"Left", "Right"} :
        (NoError /\ on_key_pressed(key)) =>
            IF stage \in {"Main", "Search"}
            THEN selected_tab' = 1 - selected_tab /\ selected' = 0
            ELSE selected_tab' = selected_tab /\ selected' = selected

C15_TabsOnlyInMainAndSearch == [](selected_tab \in {0, 1}) /\ [][C15_Step]_vars

\* C16 as claimed: in the search box q/Q changes nothing and returns Noop
C16_OriginalStep ==
    \A key \in {"q", "Q"} :
        (NoError /\ stage = "Search" /\ on_key_pressed(key)) =>
            /\ UNCHANGED <<stage, buffer, selected, selected_tab, model>>
            /\ ret' = "Noop"

C16_Original == [][C16_OriginalStep]_vars

\* C16 amended: in the search box, with no error pending, q/Q is text: it is
\* appended to the buffer, leaves stage, selected, selected_tab and the model
\* as they are and returns Noop
C16_Step ==
    \A key \in {"q", "Q"} :
        (NoError /\ stage = "Search" /\ on_key_pressed(key)) =>
            /\ buffer' = Append(buffer, key)
            /\ UNCHANGED <<stage, selected, selected_tab, model>>
            /\ ret' = "Noop"

C16_QuitKeyIsTextInSearch == [][C16_Step]_vars

\* q has been typed into the search box
C16_Witness ==
    /\ stage = "Search"
    /\ NoError
    /\ buffer = <<"q">>
    /\ ret = "Noop"

\* C17: a render that completes changes nothing of the model, of the error,
\* of stage, selected, selected_tab and buffer; outside the preview it leaves
\* scroll as it is, and in the preview it leaves a scroll that a second render
\* of the same event in a pane of the same height does not change
C17_Step ==
    \A h \in Heights :
        (draw(h) /\ ~panicked') =>
            /\ UNCHANGED <<model, last_error, stage, selected, selected_tab, buffer>>
            /\ IF stage = "StreamPreview"
               THEN LET content == text_height(selected_stream_events'[selected' + 1])
                    IN clamp(scroll', h, content) = scroll'
               ELSE scroll' = scroll

C18_Step ==
    (NoError /\ stage = "Main" /\ on_key_pressed("Enter")) =>
        /\ ~panicked'
        /\ selected < ActiveLen
        /\ selected_stream' = Some(active_rows[selected + 1])
        /\ selected' = 0
        /\ stage' = "Stream"
        /\ ret' = "Refresh"

C18_EnterInMainSucceeds == [][C18_Step]_vars

\* C19: while the preview is shown selected is an index of the events of the
\* selected stream, which are not empty
C19_PreviewIndexesAnEvent ==
    (stage = "StreamPreview" /\ ~panicked) =>
        /\ selected_stream_events # <<>>
        /\ selected < Len(selected_stream_events)

\* C20: selected_stream is set exactly while Stream or the preview is shown,
\* and a refresh in Main or Search runs the catalog loader and sets no error
C20_Step ==
    (stage \in {"Main", "Search"} /\ refresh) =>
        /\ loader' = "catalog"
        /\ last_error' = last_error

C20_SelectedStreamOnlyWhileDrilledIn ==
    /\ [](~panicked => (IsSome(selected_stream) <=> stage \in {"Stream", "StreamPreview"}))
    /\ [][C20_Step]_vars

\* the most q presses that can still be needed to get Exit once Esc has been
\* pressed, whatever the refreshes in between answer
ExitRank ==
    IF IsSome(last_error) THEN 2
    ELSE CASE stage = "StreamPreview" -> 4
           [] stage = "Stream" -> 3
           [] OTHER -> IF IsSome(selected_stream) THEN 2 ELSE 1

\* Esc has been pressed: the search box is closed, or an error covers it
PastEsc == IsSome(last_error) \/ stage # "Search"

\* C21: the user can always get out.  Esc never fails and leaves the search
\* box closed or an error pending; from then on no refresh and no load that
\* returns, with success or with a failure, opens the search box or raises
\* the number of q presses still needed, which is at most 4, and
\* every q press either returns Exit, from Main with no error pending, or
\* lowers that number by at least one, so that at most 4 q presses reach Exit
C21_Step ==
    /\ \/ ~panicked' /\ PastEsc' /\ ExitRank' <= ExitRank
       \/ ~on_key_pressed("Esc")
    /\ (PastEsc /\ ret' \in {"Ok", "Err"}) =>
          \/ ~panicked' /\ PastEsc' /\ ExitRank' <= ExitRank
          \/ ~(refresh \/ load)
    /\ PastEsc =>
          \/ /\ ~panicked'
             /\ PastEsc'
             /\ IF NoError /\ stage = "Main"
                THEN ret' = "Exit" /\ NoError' /\ stage' = "Main"
                ELSE ret' = "Noop" /\ ExitRank' < ExitRank
          \/ \A key \in {"q", "Q"} : ~on_key_pressed(key)

C21_UserCanAlwaysGetOut == [](ExitRank \in 1..4) /\ [][C21_Step]_vars

\* Exit has been returned after the dismissal of an error
C21_Witness ==
    /\ ret = "Exit"
    /\ stage = "Main"
    /\ NoError
    /\ selected_stream = None
    /\ last_created # <<>>
    /\ selected_stream_events = <<>>

\* C22: unload leaves the view as StreamsView::default() builds it: the four
\* lists and options of the model cleared, Main shown, selected, selected_tab
\* and scroll 0, the search buffer empty and no error pending
C22_Step ==
    unload =>
        /\ last_created' = <<>>
        /\ recently_changed' = <<>>
        /\ selected_stream' = None
        /\ selected_stream_events' = <<>>
        /\ stage' = "Main"
        /\ selected' = 0
        /\ selected_tab' = 0
        /\ scroll' = 0
        /\ buffer' = <<>>
        /\ last_error' = None

C22_UnloadResetsTheView == [][C22_Step]_vars

====
